---- MODULE Spec2Model ----
(***************************************************************************)
(* Model of the pricing engine (pricing.py), the partner locator           *)
(* (find_partners.py) and the request handler (app.py).                    *)
(*                                                                         *)
(* Text is a TLA+ string; a character is a string of length 1.  Tonnage is *)
(* kept in tenths of a ton (3.0 tons is 30, 12.5 tons is 125) so that the  *)
(* float comparisons of the code are integer comparisons here.  Only ASCII *)
(* text is modelled.                                                       *)
(***************************************************************************)
EXTENDS Integers, Sequences, FiniteSets, TLC

VARIABLES
    \* ---- parse_and_price (pricing.py)
    input_text,           \* the text the caller passed (never changed)
    text,                 \* the local variable text, rewritten by the serial patterns
    kept,                 \* history: the positions of input_text that text is made of
    tonnage_key_df,       \* the tonnage table: None or a Frame of rows
    ppc,                  \* position inside parse_and_price
    all_models_found,     \* upper-cased matches of model_pattern, in text order
    model_counts,         \* Counter: sequence of <<model, quantity>>, insertion order
    loop_idx,             \* index of the next model_counts item to price
    priced_items,
    needs_clarification,
    presult,              \* the value parse_and_price returned
    \* ---- find_closest_partners / get_driving_distances (find_partners.py)
    fpc,                  \* position inside find_closest_partners
    world,                \* the outside world: geocoder, roster file, distance profile
    customer_coords,
    partners_df,          \* the roster: sequence of partner rows, or None
    chunk_i,              \* loop variable i of get_driving_distances
    all_distances,
    requests,             \* the destination lists of the distance requests sent
    fresult,              \* the value find_closest_partners returned
    \* ---- process_full_request (app.py)
    apc,                  \* position inside process_full_request
    data,                 \* request.get_json()
    app_key,              \* TONNAGE_KEY_DF, loaded once at start
    pricing_results,
    work_address,
    partner_results,
    partner_called,       \* whether find_closest_partners was called
    response              \* what the handler returned, or the exception it let escape

pvars == <<input_text, text, kept, tonnage_key_df, ppc, all_models_found, model_counts, loop_idx,
           priced_items, needs_clarification, presult>>
fvars == <<fpc, world, customer_coords, partners_df, chunk_i, all_distances,
           requests, fresult>>
avars == <<apc, data, app_key, pricing_results, work_address, partner_results,
           partner_called, response>>
vars == <<pvars, fvars, avars>>

\* Python's None, for variables that otherwise hold a record
None == [none |-> TRUE]
\* Python's None, for values that otherwise hold a string
NoneStr == "None"
\* a loaded table (DataFrame) and its rows
Frame(rows) == [rows |-> rows]

Min(S) == CHOOSE x \in S : \A y \in S : x <= y
Max(S) == CHOOSE x \in S : \A y \in S : x >= y

-----------------------------------------------------------------------------
(* Characters and character classes of the regular expressions.            *)

UpperAlphabet == "ABCDEFGHIJKLMNOPQRSTUVWXYZ"
LowerAlphabet == "abcdefghijklmnopqrstuvwxyz"
DigitAlphabet == "0123456789"

CharsOf(s) == {SubSeq(s, i, i) : i \in 1..Len(s)}
UpperSet == CharsOf(UpperAlphabet)
LowerSet == CharsOf(LowerAlphabet)
DigitSet == CharsOf(DigitAlphabet)
\* \s
SpaceSet == {" ", "\t", "\n", "\r"}

\* str.upper() on one character
UpperMap == [c \in LowerSet |->
               LET i == CHOOSE k \in 1..Len(LowerAlphabet) : SubSeq(LowerAlphabet, k, k) = c
               IN  SubSeq(UpperAlphabet, i, i)]
ToUpperChar(c) == IF c \in LowerSet THEN UpperMap[c] ELSE c

RECURSIVE ToUpper(_)
\* str.upper(), character by character (the string is halved to keep the
\* evaluation shallow)
ToUpper(s) ==
    IF Len(s) = 0 THEN ""
    ELSE IF Len(s) = 1 THEN ToUpperChar(s)
    ELSE LET h == Len(s) \div 2
         IN  ToUpper(SubSeq(s, 1, h)) \o ToUpper(SubSeq(s, h + 1, Len(s)))

\* the character at position i (1-based), "" outside the string
Ch(t, i) == IF i >= 1 /\ i <= Len(t) THEN SubSeq(t, i, i) ELSE ""

IsDigit(c) == c \in DigitSet
\* [A-Z] without re.IGNORECASE
IsUpperLetter(c) == c \in UpperSet
\* [A-Z] under re.IGNORECASE
IsLetter(c) == c \in UpperSet \cup LowerSet
\* [A-Z0-9] without re.IGNORECASE
IsUpperAlnum(c) == IsUpperLetter(c) \/ IsDigit(c)
\* [A-Z0-9-] under re.IGNORECASE
RunSet == UpperSet \cup LowerSet \cup DigitSet \cup {"-"}
\* \w
WordSet == UpperSet \cup LowerSet \cup DigitSet \cup {"_"}
IsWord(c) == c \in WordSet

\* The first position >= p whose character is not in the class (the position
\* after the string if none): where a greedy X* or X+ starting at p stops.
SpanEnd(t, p, Class) ==
    IF p > Len(t) THEN p
    ELSE CHOOSE e \in p..(Len(t) + 1) :
            /\ Ch(t, e) \notin Class
            /\ \A k \in p..(e - 1) : Ch(t, k) \in Class

\* \b between positions i-1 and i
WordBoundary(t, i) == IsWord(Ch(t, i - 1)) # IsWord(Ch(t, i))

\* a literal under re.IGNORECASE at position i
LitAt(t, i, lit) ==
    /\ i + Len(lit) - 1 <= Len(t)
    /\ \A k \in 1..Len(lit) : ToUpperChar(Ch(t, i + k - 1)) = ToUpperChar(Ch(lit, k))

-----------------------------------------------------------------------------
(* serial_patterns[0]:                                                     *)
(*   (?<![A-Z0-9])(?=[A-Z0-9]*\d)[A-Z0-9]{10}(?![A-Z0-9])                  *)
(* compiled WITHOUT re.IGNORECASE (re.sub(pattern, '', text), line 53).    *)

SerialLen == 10

\* (?=[A-Z0-9]*\d) at position i
SerialLookahead(t, i) ==
    \E j \in i..Len(t) :
        /\ IsDigit(Ch(t, j))
        /\ \A k \in i..(j - 1) : IsUpperAlnum(Ch(t, k))

\* length of the match of serial_patterns[0] starting at i, 0 when none
SerialRunAt(t, i) ==
    IF /\ i + SerialLen - 1 <= Len(t)
       /\ ~IsUpperAlnum(Ch(t, i - 1))
       /\ SerialLookahead(t, i)
       /\ \A k \in i..(i + SerialLen - 1) : IsUpperAlnum(Ch(t, k))
       /\ ~IsUpperAlnum(Ch(t, i + SerialLen))
    THEN SerialLen ELSE 0

RECURSIVE SubSerialRunFrom(_, _)
\* re.sub(serial_patterns[0], '', t), scanning from position i: the text up
\* to the next match is kept, the match is dropped, the scan goes on after it
SubSerialRunFrom(t, i) ==
    IF i > Len(t) THEN ""
    ELSE LET j == CHOOSE x \in i..(Len(t) + 1) : x > Len(t) \/ SerialRunAt(t, x) > 0
         IN  IF j > Len(t) THEN SubSeq(t, i, Len(t))
             ELSE SubSeq(t, i, j - 1) \o SubSerialRunFrom(t, j + SerialRunAt(t, j))

SubSerialRun(t) == SubSerialRunFrom(t, 1)

-----------------------------------------------------------------------------
(* serial_patterns[1]:                                                     *)
(*   (?i)(?:serial\s?no?\.?#?|s/n|sn)\s*([A-Z0-9-]{10,})                   *)

MinLabelledRun == 10

\* positions reached by an optional single character of a class (X?)
Opt(t, S, Class) == S \cup {p + 1 : p \in {q \in S : Ch(t, q) \in Class}}
\* positions reached by one mandatory character c, case-insensitively
One(t, S, c) == {p + 1 : p \in {q \in S : ToUpperChar(Ch(t, q)) = c}}
OptChar(t, S, c) == S \cup One(t, S, c)

\* Every position at which the label alternation
\*   (?:serial\s?no?\.?#?|s/n|sn)
\* can end when it starts at i.
LabelEnds(t, i) ==
    LET a0 == IF LitAt(t, i, "serial") THEN {i + 6} ELSE {}
        a1 == Opt(t, a0, SpaceSet)          \* \s?
        a2 == One(t, a1, "N")              \* n
        a3 == OptChar(t, a2, "O")          \* o?
        a4 == OptChar(t, a3, ".")          \* \.?
        a5 == OptChar(t, a4, "#")          \* #?
        b  == IF LitAt(t, i, "s/n") THEN {i + 3} ELSE {}
        c  == IF LitAt(t, i, "sn") THEN {i + 2} ELSE {}
    IN  a5 \cup b \cup c

\* \s*([A-Z0-9-]{10,}) from position e: the position after the match, 0 when
\* it fails.  Both quantifiers are greedy and a space is no run character, so
\* the only match takes every space and then the whole run.
RunAfter(t, e) ==
    LET w == SpanEnd(t, e, SpaceSet)
        r == SpanEnd(t, w, RunSet)
    IN  IF r - w >= MinLabelledRun THEN r ELSE 0

\* length of the match of serial_patterns[1] starting at i, 0 when none.  The
\* quantifiers are greedy: the longest label that lets the rest match wins.
LabelledSerialAt(t, i) ==
    LET ends == {e \in LabelEnds(t, i) : RunAfter(t, e) > 0}
    IN  IF ends = {} THEN 0 ELSE RunAfter(t, Max(ends)) - i

RECURSIVE SubLabelledSerialFrom(_, _)
\* re.sub(serial_patterns[1], '', t), scanning from position i
SubLabelledSerialFrom(t, i) ==
    IF i > Len(t) THEN ""
    ELSE LET j == CHOOSE x \in i..(Len(t) + 1) : x > Len(t) \/ LabelledSerialAt(t, x) > 0
         IN  IF j > Len(t) THEN SubSeq(t, i, Len(t))
             ELSE SubSeq(t, i, j - 1)
                  \o SubLabelledSerialFrom(t, j + LabelledSerialAt(t, j))

SubLabelledSerial(t) == SubLabelledSerialFrom(t, 1)

\* for pattern in serial_patterns: text = re.sub(pattern, '', text)
StripSerials(t) == SubLabelledSerial(SubSerialRun(t))

RECURSIVE SerialRunKeptFrom(_, _)
\* the positions of t, from i on, that re.sub(serial_patterns[0], '', t) keeps
SerialRunKeptFrom(t, i) ==
    IF i > Len(t) THEN <<>>
    ELSE LET j == CHOOSE x \in i..(Len(t) + 1) : x > Len(t) \/ SerialRunAt(t, x) > 0
         IN  IF j > Len(t) THEN [k \in 1..(Len(t) - i + 1) |-> i + k - 1]
             ELSE [k \in 1..(j - i) |-> i + k - 1]
                  \o SerialRunKeptFrom(t, j + SerialRunAt(t, j))

RECURSIVE LabelledSerialKeptFrom(_, _)
\* the positions of t, from i on, that re.sub(serial_patterns[1], '', t) keeps
LabelledSerialKeptFrom(t, i) ==
    IF i > Len(t) THEN <<>>
    ELSE LET j == CHOOSE x \in i..(Len(t) + 1) : x > Len(t) \/ LabelledSerialAt(t, x) > 0
         IN  IF j > Len(t) THEN [k \in 1..(Len(t) - i + 1) |-> i + k - 1]
             ELSE [k \in 1..(j - i) |-> i + k - 1]
                  \o LabelledSerialKeptFrom(t, j + LabelledSerialAt(t, j))

\* the positions of t that are left after both substitutions, in order
KeptPositions(t) ==
    LET k1 == SerialRunKeptFrom(t, 1)
        k2 == LabelledSerialKeptFrom(SubSerialRun(t), 1)
    IN  [k \in 1..Len(k2) |-> k1[k2[k]]]

-----------------------------------------------------------------------------
(* model_pattern, used with re.IGNORECASE:                                 *)
(*   \b(?:[A-Z]{2}(?:\d{3}|\d{2}[A-Z])|[A-Z]{3}\d{2})[A-Z0-9-]*\b          *)

HeadLen == 5

\* [A-Z]{2}(?:\d{3}|\d{2}[A-Z]) at i
OldHeadAt(t, i) ==
    /\ IsLetter(Ch(t, i)) /\ IsLetter(Ch(t, i + 1))
    /\ IsDigit(Ch(t, i + 2)) /\ IsDigit(Ch(t, i + 3))
    /\ (IsDigit(Ch(t, i + 4)) \/ IsLetter(Ch(t, i + 4)))

\* [A-Z]{3}\d{2} at i
WyeHeadAt(t, i) ==
    /\ IsLetter(Ch(t, i)) /\ IsLetter(Ch(t, i + 1)) /\ IsLetter(Ch(t, i + 2))
    /\ IsDigit(Ch(t, i + 3)) /\ IsDigit(Ch(t, i + 4))

\* length of the match of model_pattern starting at i, 0 when none: the greedy
\* [A-Z0-9-]* gives characters back until the closing \b holds.
ModelAt(t, i) ==
    IF WordBoundary(t, i) /\ (OldHeadAt(t, i) \/ WyeHeadAt(t, i))
    THEN LET e0 == i + HeadLen
             m  == SpanEnd(t, e0, RunSet)
             ends == {e \in e0..m : WordBoundary(t, e)}
         IN  IF ends = {} THEN 0 ELSE Max(ends) - i
    ELSE 0

RECURSIVE FindModelsFrom(_, _)
\* [m.upper() for m in re.findall(model_pattern, t, re.IGNORECASE)], from i:
\* the leftmost match at or after i, then the scan goes on after it
FindModelsFrom(t, i) ==
    IF i > Len(t) THEN <<>>
    ELSE LET j == CHOOSE x \in i..(Len(t) + 1) : x > Len(t) \/ ModelAt(t, x) > 0
         IN  IF j > Len(t) THEN <<>>
             ELSE <<ToUpper(SubSeq(t, j, j + ModelAt(t, j) - 1))>>
                  \o FindModelsFrom(t, j + ModelAt(t, j))

FindModels(t) == FindModelsFrom(t, 1)

RECURSIVE CounterFrom(_, _)
\* Counter(found): quantities keyed by model, in order of first insertion
CounterFrom(counts, found) ==
    IF found = <<>> THEN counts
    ELSE LET m == Head(found)
             hit == {k \in 1..Len(counts) : counts[k][1] = m}
         IN  IF hit = {}
             THEN CounterFrom(Append(counts, <<m, 1>>), Tail(found))
             ELSE LET k == CHOOSE x \in hit : TRUE
                  IN  CounterFrom([counts EXCEPT ![k] = <<m, counts[k][2] + 1>>],
                                  Tail(found))


\* Counter that never merges the occurrences of a model
CounterNoMerge(found) == [k \in 1..Len(found) |-> <<found[k], 1>>]

Counter(found) == CounterFrom(<<>>, found)

-----------------------------------------------------------------------------
(* Decoding and pricing of one model (the body of the loop, lines 64-111). *)

\* WYE_TONNAGE_MAP, tonnage in tenths of a ton
WYE_TONNAGE_MAP ==
    ("03" :> 30) @@ ("04" :> 40) @@ ("06" :> 50) @@ ("07" :> 60) @@
    ("08" :> 75) @@ ("10" :> 100) @@ ("12" :> 125)

\* re.match(r'^[A-Z]{3}\d{2}', model), without re.IGNORECASE
IsWyeModel(model) ==
    /\ IsUpperLetter(Ch(model, 1)) /\ IsUpperLetter(Ch(model, 2))
    /\ IsUpperLetter(Ch(model, 3))
    /\ IsDigit(Ch(model, 4)) /\ IsDigit(Ch(model, 5))

RECURSIVE StripNonAlnum(_)
\* re.sub(r'[^A-Z0-9]', '', model)
StripNonAlnum(s) ==
    IF Len(s) = 0 THEN ""
    ELSE IF Len(s) = 1 THEN (IF IsUpperAlnum(s) THEN s ELSE "")
    ELSE LET h == Len(s) \div 2
         IN  StripNonAlnum(SubSeq(s, 1, h)) \o StripNonAlnum(SubSeq(s, h + 1, Len(s)))

\* re.sub(r'[^A-Z0-9]', '', model)[:5]
FirstFive(model) ==
    LET a == StripNonAlnum(model) IN SubSeq(a, 1, IF Len(a) < 5 THEN Len(a) ELSE 5)

\* str.isdigit()
IsDigitStr(s) == Len(s) > 0 /\ \A k \in 1..Len(s) : IsDigit(Ch(s, k))

\* the capacity code of an old-style model, None when neither format fits
CapacityCode(model) ==
    LET first_five == FirstFive(model)
    IN  IF Len(first_five) >= 5 /\ IsDigitStr(SubSeq(first_five, 3, 5))
        THEN SubSeq(first_five, 3, 5)
        ELSE IF Len(first_five) >= 4 /\ IsDigitStr(SubSeq(first_five, 3, 4))
        THEN SubSeq(first_five, 3, 4)
        ELSE NoneStr


\* a digit string without its leading zeros
StripZeros(code) == SubSeq(code, SpanEnd(code, 1, {"0"}), Len(code))

\* KeyRows as it would be with the codes compared as numbers (the table read
\* without dtype=str)
KeyRowsNumeric(df, capacity_code) ==
    SelectSeq(df.rows, LAMBDA row : StripZeros(row.capacity_code) = StripZeros(capacity_code))

\* tonnage_key_df[tonnage_key_df['capacity_code'] == capacity_code]
KeyRows(df, capacity_code) ==
    SelectSeq(df.rows, LAMBDA row : row.capacity_code = capacity_code)

\* The decoding half of the loop body.  tons is <<>> for the code's None and
\* <<t>> for a tonnage t; clar holds the clarification the decoder appends.
Decode(model, quantity, df, clar_so_far) ==
    IF IsWyeModel(model)
    THEN LET capacity_code == SubSeq(model, 4, 5)
         IN  IF capacity_code \in DOMAIN WYE_TONNAGE_MAP
             THEN [tons |-> <<WYE_TONNAGE_MAP[capacity_code]>>, clar |-> <<>>]
             ELSE [tons |-> <<>>,
                   clar |-> <<[model |-> model, quantity |-> quantity,
                               reason |-> <<"WYE capacity code not found in direct map.",
                                            capacity_code>>]>>]
    ELSE LET capacity_code == CapacityCode(model)
         IN  IF capacity_code # NoneStr /\ Len(capacity_code) > 0
             THEN LET match == KeyRows(df, capacity_code)
                  IN  IF match # <<>>
                      THEN [tons |-> <<match[1].tons>>, clar |-> <<>>]
                      ELSE [tons |-> <<>>,
                            clar |-> <<[model |-> model, quantity |-> quantity,
                                        reason |-> <<"Capacity code not found in key file.",
                                                     capacity_code>>]>>]
             ELSE IF ~\E k \in 1..Len(clar_so_far) : clar_so_far[k].model = model
                  THEN [tons |-> <<>>,
                        clar |-> <<[model |-> model, quantity |-> quantity,
                                    reason |-> <<"Could not decode a valid capacity code.",
                                                 "">>]>>]
                  ELSE [tons |-> <<>>, clar |-> <<>>]

SmallTierLow == 30
SmallTierHigh == 100
LargeTierTons == {125, 150, 175, 200, 250, 275}
SmallTierPrice == 800
LargeTierPrice == 900


\* UnitPrice with the lower end of the small tier excluded
UnitPriceExclusive(tons) ==
    IF SmallTierLow < tons /\ tons <= SmallTierHigh THEN SmallTierPrice
    ELSE IF tons \in LargeTierTons THEN LargeTierPrice
    ELSE 0

\* unit_price for a tonnage, 0 when it is in no tier
UnitPrice(tons) ==
    IF SmallTierLow <= tons /\ tons <= SmallTierHigh THEN SmallTierPrice
    ELSE IF tons \in LargeTierTons THEN LargeTierPrice
    ELSE 0


\* LoopBody without the else branch of line 110: a tonnage in no tier is dropped
LoopBodyNoTierClar(priced, clar, model, quantity, df) ==
    LET d == Decode(model, quantity, df, clar)
        clar1 == clar \o d.clar
    IN  IF d.tons # <<>> /\ UnitPrice(d.tons[1]) > 0
        THEN [priced |-> Append(priced,
                           [model |-> model, quantity |-> quantity,
                            tons |-> d.tons[1], unit_price |-> UnitPrice(d.tons[1]),
                            line_total |-> UnitPrice(d.tons[1]) * quantity]),
              clar |-> clar1]
        ELSE [priced |-> priced, clar |-> clar1]

\* One iteration of the loop: the lists after pricing (model, quantity).
LoopBody(priced, clar, model, quantity, df) ==
    LET d == Decode(model, quantity, df, clar)
        clar1 == clar \o d.clar
    IN  IF d.tons # <<>>
        THEN LET tons == d.tons[1]
                 unit_price == UnitPrice(tons)
             IN  IF unit_price > 0
                 THEN [priced |-> Append(priced,
                                    [model |-> model, quantity |-> quantity,
                                     tons |-> tons, unit_price |-> unit_price,
                                     line_total |-> unit_price * quantity]),
                       clar |-> clar1]
                 ELSE [priced |-> priced,
                       clar |-> Append(clar1,
                                    [model |-> model, quantity |-> quantity,
                                     reason |-> <<"Tonnage is not in a valid pricing tier.",
                                                  tons>>])]
        ELSE [priced |-> priced, clar |-> clar1]

RECURSIVE SumLineTotal(_)
\* sum(item['line_total'] for item in items)
SumLineTotal(items) ==
    IF items = <<>> THEN 0 ELSE Head(items).line_total + SumLineTotal(Tail(items))

RECURSIVE SumQuantity(_)
\* sum(item['quantity'] for item in items)
SumQuantity(items) ==
    IF items = <<>> THEN 0 ELSE Head(items).quantity + SumQuantity(Tail(items))

\* the dictionary parse_and_price returns (lines 113-123)
PricingResult(priced, clar, found) ==
    [priced_items |-> priced,
     needs_clarification |-> clar,
     summary |-> [grand_total |-> SumLineTotal(priced),
                  priced_units_count |-> SumQuantity(priced),
                  total_units_count |-> Len(found)]]

KeyNotLoaded == [error |-> "Tonnage key file not loaded."]

RECURSIVE PriceFrom(_, _, _, _, _)
\* the loop over model_counts.items() from item k on
PriceFrom(priced, clar, counts, k, df) ==
    IF k > Len(counts) THEN [priced |-> priced, clar |-> clar]
    ELSE LET r == LoopBody(priced, clar, counts[k][1], counts[k][2], df)
         IN  PriceFrom(r.priced, r.clar, counts, k + 1, df)

\* parse_and_price(t, df) as one function
ParseAndPrice(t, df) ==
    IF df = None THEN KeyNotLoaded
    ELSE LET found == FindModels(StripSerials(t))
             r == PriceFrom(<<>>, <<>>, Counter(found), 1, df)
         IN  PricingResult(r.priced, r.clar, found)

-----------------------------------------------------------------------------
(* parse_and_price, step by step.                                          *)

\* lines 45-53: the table check and the two substitutions
ParseStrip ==
    /\ ppc = "start"
    /\ IF tonnage_key_df = None
       THEN /\ presult' = KeyNotLoaded
            /\ ppc' = "done"
            /\ UNCHANGED <<text, kept>>
       ELSE /\ text' = SubLabelledSerial(SubSerialRun(text))
            /\ kept' = KeptPositions(text)
            /\ ppc' = "extract"
            /\ presult' = presult
    /\ UNCHANGED <<input_text, tonnage_key_df, all_models_found, model_counts,
                   loop_idx, priced_items, needs_clarification>>
    /\ UNCHANGED <<fvars, avars>>

\* lines 56-62: findall, Counter and the two empty lists
ParseExtract ==
    /\ ppc = "extract"
    /\ all_models_found' = FindModels(text)
    /\ model_counts' = Counter(FindModels(text))
    /\ priced_items' = <<>>
    /\ needs_clarification' = <<>>
    /\ loop_idx' = 1
    /\ ppc' = "loop"
    /\ UNCHANGED <<input_text, text, kept, tonnage_key_df, presult>>
    /\ UNCHANGED <<fvars, avars>>

\* lines 64-111: one iteration of the loop over model_counts.items()
ParseLoop ==
    /\ ppc = "loop"
    /\ loop_idx <= Len(model_counts)
    /\ LET r == LoopBody(priced_items, needs_clarification,
                         model_counts[loop_idx][1], model_counts[loop_idx][2],
                         tonnage_key_df)
       IN  /\ priced_items' = r.priced
           /\ needs_clarification' = r.clar
    /\ loop_idx' = loop_idx + 1
    /\ UNCHANGED <<input_text, text, kept, tonnage_key_df, ppc, all_models_found,
                   model_counts, presult>>
    /\ UNCHANGED <<fvars, avars>>

\* lines 113-123: the totals and the return
ParseReturn ==
    /\ ppc = "loop"
    /\ loop_idx > Len(model_counts)
    /\ presult' = PricingResult(priced_items, needs_clarification, all_models_found)
    /\ ppc' = "done"
    /\ UNCHANGED <<input_text, text, kept, tonnage_key_df, all_models_found, model_counts,
                   loop_idx, priced_items, needs_clarification>>
    /\ UNCHANGED <<fvars, avars>>

-----------------------------------------------------------------------------
(* Inputs of the pricing specification.                                    *)

MaxWords == 3

Words == {"ZF037", "zf037", "ZF03A", "WYE06", "WYE99",
          "AB12345678", "ab12345678", "AB123-45678-X",
          "S/N", "Serial"}
Seps == {"", " "}

RECURSIVE Join(_, _)
Join(ws, sep) ==
    IF ws = <<>> THEN ""
    ELSE IF Len(ws) = 1 THEN ws[1]
    ELSE ws[1] \o sep \o Join(Tail(ws), sep)

TextsOf(W, S, n) == {Join(ws, sep) : ws \in UNION {[1..k -> W] : k \in 0..n}, sep \in S}

Texts == TextsOf(Words, Seps, MaxWords)

\* Tonnage tables as load_tonnage_key returns them: rows of capacity_code (a
\* string, leading zeros kept) and tons, or None when the file could not be read.
KeyA == Frame(<<[capacity_code |-> "037", tons |-> 30],
                [capacity_code |-> "3", tons |-> 50],
                [capacity_code |-> "003", tons |-> 50],
                [capacity_code |-> "123", tons |-> 125]>>)
KeyB == Frame(<<[capacity_code |-> "03", tons |-> 110],
                [capacity_code |-> "037", tons |-> 275],
                [capacity_code |-> "037", tons |-> 30],
                [capacity_code |-> "123", tons |-> 300]>>)
Keys == {KeyA, KeyB, None}

PIdle ==
    /\ input_text = "" /\ text = "" /\ kept = <<>>
    /\ tonnage_key_df = None /\ ppc = "idle"
    /\ all_models_found = <<>> /\ model_counts = <<>> /\ loop_idx = 0
    /\ priced_items = <<>> /\ needs_clarification = <<>> /\ presult = None

FIdle ==
    /\ fpc = "idle" /\ world = None /\ customer_coords = None /\ partners_df = None
    /\ chunk_i = 0 /\ all_distances = <<>> /\ requests = <<>> /\ fresult = None

AIdle ==
    /\ apc = "idle" /\ data = None /\ app_key = None /\ pricing_results = None
    /\ work_address = NoneStr /\ partner_results = None /\ partner_called = FALSE
    /\ response = None

PInit ==
    /\ input_text \in Texts
    /\ text = input_text
    /\ kept = [k \in 1..Len(input_text) |-> k]
    /\ tonnage_key_df \in Keys
    /\ ppc = "start"
    /\ all_models_found = <<>> /\ model_counts = <<>> /\ loop_idx = 0
    /\ priced_items = <<>> /\ needs_clarification = <<>> /\ presult = None

InitPricing == PInit /\ FIdle /\ AIdle
NextPricing == ParseStrip \/ ParseExtract \/ ParseLoop \/ ParseReturn
SpecPricing == InitPricing /\ [][NextPricing]_vars

-----------------------------------------------------------------------------
(* extract_address (pricing.py), re.search with re.IGNORECASE of           *)
(*   \d{3,}\s+[\w\s\.\,\#]+\b(?:[A-Z]{2})\b\s+\d{5}                        *)

MinStreetDigits == 3
StateLen == 2
ZipLen == 5

\* [\w\s\.\,\#]
AddrSet == WordSet \cup SpaceSet \cup {".", ",", "#"}

\* \b(?:[A-Z]{2})\b\s+\d{5} at r: the position after the match, 0 when it fails
StateZipAt(t, r) ==
    LET w == SpanEnd(t, r + StateLen, SpaceSet)
    IN  IF /\ WordBoundary(t, r)
           /\ \A k \in r..(r + StateLen - 1) : IsLetter(Ch(t, k))
           /\ WordBoundary(t, r + StateLen)
           /\ w > r + StateLen
           /\ \A k \in w..(w + ZipLen - 1) : IsDigit(Ch(t, k))
        THEN w + ZipLen ELSE 0

\* Every position after a match of the whole pattern that starts at i.
AddressEnds(t, i) ==
    LET d  == {p \in (i + MinStreetDigits)..SpanEnd(t, i, DigitSet) : TRUE}   \* \d{3,}
        sp == UNION {(p + 1)..SpanEnd(t, p, SpaceSet) : p \in d}               \* \s+
        cl == UNION {(q + 1)..SpanEnd(t, q, AddrSet) : q \in sp}           \* [...]+
    IN  {StateZipAt(t, r) : r \in cl} \ {0}

\* The match that starts at i ends at the largest such position: the greedy
\* [...]+ is tried longest first, and giving back digits or spaces in front
\* of it only adds shorter candidates.  0 when there is no match at i.
AddressEndAt(t, i) ==
    LET ends == AddressEnds(t, i) IN IF ends = {} THEN 0 ELSE Max(ends)

\* match.group(0) if match else None
ExtractAddress(t) ==
    LET starts == {i \in 1..Len(t) : AddressEndAt(t, i) > 0}
    IN  IF starts = {} THEN NoneStr
        ELSE SubSeq(t, Min(starts), AddressEndAt(t, Min(starts)) - 1)

-----------------------------------------------------------------------------
(* find_partners.py.  A distance in miles is the exact quotient            *)
(* num / MetersPerMileE2 (meters / 1609.34), or infinity.                  *)

chunk_size == 25
TopN == 3
MetersPerMileE2 == 160934

\* float('inf')
Inf == [inf |-> TRUE, num |-> 0]
\* distance_in_meters / 1609.34
Miles(meters) == [inf |-> FALSE, num |-> meters * 100]

\* a < b on distances
DistLess(a, b) == ~a.inf /\ (b.inf \/ a.num < b.num)

\* round(d, 2), in hundredths of a mile.  No quotient meters / 1609.34 lies
\* exactly half way between two hundredths, so rounding half up is exact.
Round2(d) ==
    IF d.inf THEN [inf |-> TRUE, hundredths |-> 0]
    ELSE [inf |-> FALSE,
          hundredths |-> (2 * 100 * d.num + MetersPerMileE2) \div (2 * MetersPerMileE2)]

\* list(zip(partners_df['latitude'], partners_df['longitude']))
CoordsList(df) == [k \in 1..Len(df.rows) |-> <<df.rows[k].latitude, df.rows[k].longitude>>]

\* destination_coords_list[i:i + chunk_size], i counted from 0
Chunk(list, i) ==
    SubSeq(list, i + 1, IF i + chunk_size < Len(list) THEN i + chunk_size ELSE Len(list))


\* ChunkDistances that fills a failed request with chunk_size infinities,
\* whatever the length of the chunk
ChunkDistancesFullChunk(chunk, status, elements) ==
    IF status = "OK"
    THEN [k \in 1..Len(elements) |->
             IF elements[k].status = "OK" THEN Miles(elements[k].distance) ELSE Inf]
    ELSE [k \in 1..chunk_size |-> Inf]

\* What one request adds to all_distances (lines 51-70).  status is the
\* outcome of the request, elements the per-destination elements returned.
ChunkDistances(chunk, status, elements) ==
    IF status = "OK"
    THEN [k \in 1..Len(elements) |->
             IF elements[k].status = "OK" THEN Miles(elements[k].distance) ELSE Inf]
    ELSE [k \in 1..Len(chunk) |-> Inf]

\* partners_df.sort_values(by='distance_miles'): the row numbers in sorted
\* order.  pandas' default sort is not stable; ties says which of two rows
\* of equal distance comes first.
SortValues(dists, ties) ==
    LET Before(j, k) == \/ DistLess(dists[j], dists[k])
                        \/ /\ dists[j] = dists[k]
                           /\ IF ties = "first" THEN j < k ELSE j > k
    IN  SortSeq([k \in 1..Len(dists) |-> k], Before)


\* .tail(3) in place of .head(3)
TailRows(order) == SubSeq(order, IF Len(order) < TopN THEN 1 ELSE Len(order) - TopN + 1,
                          Len(order))

\* .head(3)
HeadRows(order) == SubSeq(order, 1, IF Len(order) < TopN THEN Len(order) ELSE TopN)

\* lines 107-113: one result record per selected row
FormatResults(df, dists, order) ==
    [r \in 1..Len(order) |->
        [partner_name |-> df.rows[order[r]].partner_name,
         address |-> df.rows[order[r]].address,
         distance_miles |-> Round2(dists[order[r]])]]

GeocodeFailure == [failure |-> "Could not find coordinates for the customer address."]
RosterFailure == [failure |-> "Error: The file 'partners_geocoded.csv' was not found."]

\* lines 82-84: geocode_address and the check of its result
FindGeocode ==
    /\ fpc = "start"
    /\ IF world.geocode = "OK"
       THEN /\ customer_coords' = world.customer
            /\ fpc' = "load"
            /\ fresult' = fresult
       ELSE /\ customer_coords' = None       \* non-OK status or RequestException
            /\ fresult' = GeocodeFailure
            /\ fpc' = "done"
    /\ UNCHANGED <<world, partners_df, chunk_i, all_distances, requests>>
    /\ UNCHANGED <<pvars, apc, data, app_key, pricing_results, work_address,
                   partner_results, partner_called, response>>

\* lines 89-97: pd.read_csv(PARTNERS_FILE)
FindLoad ==
    /\ fpc = "load"
    /\ IF world.roster = None
       THEN /\ fresult' = RosterFailure      \* FileNotFoundError
            /\ fpc' = "done"
            /\ UNCHANGED <<partners_df, chunk_i, all_distances>>
       ELSE /\ partners_df' = world.roster
            /\ all_distances' = <<>>
            /\ chunk_i' = 0
            /\ fpc' = "distances"
            /\ fresult' = fresult
    /\ UNCHANGED <<world, customer_coords, requests>>
    /\ UNCHANGED <<pvars, apc, data, app_key, pricing_results, work_address,
                   partner_results, partner_called, response>>

\* the sets of at most n failing positions of a chunk of length len
RECURSIVE FailSets(_, _)
FailSets(len, n) ==
    IF n = 0 THEN {{}}
    ELSE FailSets(len, n - 1) \cup
         {S \cup {a} : S \in FailSets(len, n - 1), a \in 1..len}

\* the distance the service reports for a destination, in meters
MetersTo(profile, coords) ==
    LET k == coords[1]
    IN  CASE profile = "near_first" -> 1000 * k
          [] profile = "far_first"  -> 1000 * (100 - k)
          [] profile = "ties"       -> 5000
          [] OTHER                  -> 1609 + 500 * ((7 * k) % 5)

\* data['rows'][0]['elements'] of a successful response: one element per
\* destination sent, those at the positions in failed with a non-OK status
Elements(profile, chunk, failed) ==
    [k \in 1..Len(chunk) |->
        [status |-> IF k \in failed THEN "NOT_FOUND" ELSE "OK",
         distance |-> MetersTo(profile, chunk[k])]]

MaxElementFailures == 1

\* lines 43-70: one iteration of the loop of get_driving_distances
FindChunk ==
    /\ fpc = "distances"
    /\ chunk_i < Len(CoordsList(partners_df))
    /\ LET chunk == Chunk(CoordsList(partners_df), chunk_i)
       IN  \E status \in {"OK", "REQUEST_DENIED", "RequestException"} :
           \E failed \in FailSets(Len(chunk), MaxElementFailures) :
               /\ status # "OK" => failed = {}
               /\ all_distances' = all_distances \o
                      ChunkDistances(chunk, status, Elements(world.profile, chunk, failed))
               /\ requests' = Append(requests,
                      [destinations |-> chunk, status |-> status, failed |-> failed])
    /\ chunk_i' = chunk_i + chunk_size
    /\ UNCHANGED <<fpc, world, customer_coords, partners_df, fresult>>
    /\ UNCHANGED <<pvars, apc, data, app_key, pricing_results, work_address,
                   partner_results, partner_called, response>>

\* lines 72 and 101-115: the loop is over; the new column, the sort, the
\* first three rows and the result records.  Assigning a column of another
\* length than the frame raises ValueError.
FindSort ==
    /\ fpc = "distances"
    /\ chunk_i >= Len(CoordsList(partners_df))
    /\ IF Len(all_distances) # Len(partners_df.rows)
       THEN fresult' = [raised |-> "ValueError"]
       ELSE fresult' = [partners |->
                FormatResults(partners_df, all_distances,
                              HeadRows(SortValues(all_distances, world.ties)))]
    /\ fpc' = "done"
    /\ UNCHANGED <<world, customer_coords, partners_df, chunk_i, all_distances, requests>>
    /\ UNCHANGED <<pvars, apc, data, app_key, pricing_results, work_address,
                   partner_results, partner_called, response>>

-----------------------------------------------------------------------------
(* Inputs of the partner specification.                                    *)

MaxRoster == 27
SmallRoster == 4

\* partners_geocoded.csv with n rows
Roster(n) ==
    Frame([k \in 1..n |-> [partner_name |-> k, address |-> k,
                           latitude |-> k, longitude |-> 0 - k]])

\* roster sizes: the small ones and those around one full chunk
RosterSizes == {n \in 0..MaxRoster : n <= SmallRoster \/ n >= chunk_size - 1}
Profiles == {"near_first", "far_first", "ties", "mixed"}

WorldsOf(sizes, profiles, tiesSet) ==
    [geocode : {"OK", "ZERO_RESULTS", "RequestException"},
     customer : {<<35, 0 - 80>>},
     roster : {None} \cup {Roster(n) : n \in sizes},
     profile : profiles,
     ties : tiesSet]

PartnerWorlds == WorldsOf(RosterSizes, Profiles, {"first", "last"})

FInit ==
    /\ fpc = "start"
    /\ world \in PartnerWorlds
    /\ customer_coords = None /\ partners_df = None
    /\ chunk_i = 0 /\ all_distances = <<>> /\ requests = <<>> /\ fresult = None

InitPartners == PIdle /\ FInit /\ AIdle
NextPartners == FindGeocode \/ FindLoad \/ FindChunk \/ FindSort
SpecPartners == InitPartners /\ [][NextPartners]_vars

-----------------------------------------------------------------------------
(* process_full_request (app.py).  data is what request.get_json() gave:   *)
(* kind "null" is None, "empty" is {}, "no_text" an object without the key *)
(* 'text', "text" an object with it; is_str tells whether data['text'] is  *)
(* a string.                                                               *)

NoTextError == [status |-> 400, body |-> [error |-> "No text provided in request"]]
NoAddressError == [error |-> "Could not extract a valid address from the text."]
TypeError == [raised |-> "TypeError"]


\* FinalResponse that gives up the pricing when the partner part is an error
FinalResponseAllOrNothing(pricing, partners) ==
    IF partners = NoAddressError \/ "failure" \in DOMAIN partners
    THEN [pricing_analysis |-> partners, partner_locator |-> partners]
    ELSE [pricing_analysis |-> pricing, partner_locator |-> partners]

\* final_response, lines 34-37
FinalResponse(pricing, partners) ==
    [pricing_analysis |-> pricing, partner_locator |-> partners]

\* lines 16-20
AppValidate ==
    /\ apc = "start"
    /\ IF data.kind \in {"null", "empty", "no_text"}
       THEN /\ response' = NoTextError
            /\ apc' = "done"
       ELSE /\ apc' = "pricing"
            /\ response' = response
    /\ UNCHANGED <<data, app_key, pricing_results, work_address, partner_results,
                   partner_called>>
    /\ UNCHANGED <<pvars, fvars>>

\* line 23: parse_and_price(messy_text, TONNAGE_KEY_DF).  With the table
\* loaded, re.sub raises TypeError on a text that is no string.
AppPricing ==
    /\ apc = "pricing"
    /\ IF app_key = None
       THEN /\ pricing_results' = KeyNotLoaded
            /\ apc' = "address"
            /\ response' = response
       ELSE IF ~data.is_str
       THEN /\ response' = TypeError
            /\ apc' = "raised"
            /\ pricing_results' = pricing_results
       ELSE /\ pricing_results' = ParseAndPrice(data.text, app_key)
            /\ apc' = "address"
            /\ response' = response
    /\ UNCHANGED <<data, app_key, work_address, partner_results, partner_called>>
    /\ UNCHANGED <<pvars, fvars>>

\* lines 26-31: extract_address and the call of find_closest_partners.
\* re.search raises TypeError on a text that is no string.
AppAddress ==
    /\ apc = "address"
    /\ IF ~data.is_str
       THEN /\ response' = TypeError
            /\ apc' = "raised"
            /\ UNCHANGED <<work_address, partner_results, partner_called, fpc>>
       ELSE /\ work_address' = ExtractAddress(data.text)
            /\ response' = response
            /\ IF ExtractAddress(data.text) # NoneStr
               THEN /\ partner_called' = TRUE
                    /\ fpc' = "start"
                    /\ apc' = "partners"
                    /\ partner_results' = partner_results
               ELSE /\ partner_results' = NoAddressError
                    /\ apc' = "combine"
                    /\ UNCHANGED <<partner_called, fpc>>
    /\ UNCHANGED <<data, app_key, pricing_results>>
    /\ UNCHANGED <<pvars, world, customer_coords, partners_df, chunk_i,
                   all_distances, requests, fresult>>

\* line 29, the return of find_closest_partners; an exception it raises
\* passes through the handler
AppPartners ==
    /\ apc = "partners"
    /\ fpc = "done"
    /\ IF fresult \in {[raised |-> "ValueError"]}
       THEN /\ response' = fresult
            /\ apc' = "raised"
            /\ partner_results' = partner_results
       ELSE /\ partner_results' = fresult
            /\ apc' = "combine"
            /\ response' = response
    /\ UNCHANGED <<data, app_key, pricing_results, work_address, partner_called>>
    /\ UNCHANGED <<pvars, fvars>>

\* lines 34-39
AppCombine ==
    /\ apc = "combine"
    /\ response' = [status |-> 200,
                    body |-> FinalResponse(pricing_results, partner_results)]
    /\ apc' = "done"
    /\ UNCHANGED <<data, app_key, pricing_results, work_address, partner_results,
                   partner_called>>
    /\ UNCHANGED <<pvars, fvars>>

-----------------------------------------------------------------------------
(* Inputs of the request specification.                                    *)

MaxAppWords == 2
MaxAppRoster == 3

AppWords == {"ZF037", "WYE06", "ZF03A", "123 Main St, Anytown, CA 90210", "90210"}
AppTexts == TextsOf(AppWords, {" "}, MaxAppWords)

Requests ==
    {[kind |-> k, is_str |-> FALSE, text |-> ""] : k \in {"null", "empty", "no_text"}}
    \cup {[kind |-> "text", is_str |-> TRUE, text |-> t] : t \in AppTexts}
    \cup {[kind |-> "text", is_str |-> FALSE, text |-> ""]}

AppWorlds == WorldsOf(0..MaxAppRoster, {"mixed"}, {"first"})

AInit ==
    /\ apc = "start"
    /\ data \in Requests
    /\ app_key \in {KeyA, None}
    /\ pricing_results = None /\ work_address = NoneStr /\ partner_results = None
    /\ partner_called = FALSE /\ response = None

FWaiting ==
    /\ fpc = "idle"
    /\ world \in AppWorlds
    /\ customer_coords = None /\ partners_df = None
    /\ chunk_i = 0 /\ all_distances = <<>> /\ requests = <<>> /\ fresult = None

InitApp == PIdle /\ FWaiting /\ AInit
NextApp == \/ AppValidate \/ AppPricing \/ AppAddress \/ AppPartners \/ AppCombine
           \/ FindGeocode \/ FindLoad \/ FindChunk \/ FindSort
SpecApp == InitApp /\ [][NextApp]_vars

-----------------------------------------------------------------------------
(* Properties of parse_and_price, checked under SpecPricing.               *)

Range(seq) == {seq[k] : k \in 1..Len(seq)}
Returned == ppc = "done" /\ tonnage_key_df # None
\* the positions of the items of a list that are about model m
ItemsOf(list, m) == {k \in 1..Len(list) : list[k].model = m}
Occurrences(found, m) == Cardinality({k \in 1..Len(found) : found[k] = m})
FirstIndex(found, m) == Min({k \in 1..Len(found) : found[k] = m})

\* C1: in the result, total_units_count is the number of matches of the model
\* pattern in the normalized text, and it equals priced_units_count plus the
\* quantities of all needs_clarification items.
C1_QuantityConservation ==
    Returned =>
        /\ presult.summary.total_units_count = Len(all_models_found)
        /\ presult.summary.total_units_count =
               presult.summary.priced_units_count
               + SumQuantity(presult.needs_clarification)

C1_Witness ==
    /\ Returned
    /\ presult.summary.priced_units_count >= 2
    /\ SumQuantity(presult.needs_clarification) >= 1
    /\ \E k \in 1..Len(presult.needs_clarification) :
           presult.needs_clarification[k].reason[1] = "Tonnage is not in a valid pricing tier."

\* the tiers as the claim words them, in tenths of a ton
InSmallTier(tons) == 30 <= tons /\ tons <= 100
InLargeTier(tons) == tons \in {125, 150, 175, 200, 250, 275}

\* C2: a token with a resolved tonnage gets a PricedItem exactly when the
\* tonnage is in [3.0, 10.0] or in {12.5, 15, 17.5, 20, 25, 27.5}, otherwise a
\* ClarificationItem and no PricedItem; the unit price is one constant per
\* tier, line_total is unit_price * quantity and grand_total is the sum of the
\* line totals.
C2_TierPricing ==
    Returned =>
        /\ \A c \in Range(model_counts) :
             LET m == c[1]
                 d == Decode(m, c[2], tonnage_key_df, <<>>)
                 p == ItemsOf(presult.priced_items, m)
                 n == ItemsOf(presult.needs_clarification, m)
             IN  d.tons # <<>> =>
                   IF InSmallTier(d.tons[1]) \/ InLargeTier(d.tons[1])
                   THEN /\ Cardinality(p) = 1 /\ n = {}
                        /\ \A k \in p : presult.priced_items[k].tons = d.tons[1]
                   ELSE /\ p = {} /\ Cardinality(n) = 1
                        /\ \A k \in n : presult.needs_clarification[k].reason =
                               <<"Tonnage is not in a valid pricing tier.", d.tons[1]>>
        /\ \A k \in 1..Len(presult.priced_items) :
             LET it == presult.priced_items[k]
             IN  /\ InSmallTier(it.tons) \/ InLargeTier(it.tons)
                 /\ it.line_total = it.unit_price * it.quantity
                 /\ \A j \in 1..Len(presult.priced_items) :
                      InSmallTier(presult.priced_items[j].tons) = InSmallTier(it.tons)
                          => presult.priced_items[j].unit_price = it.unit_price
        /\ presult.summary.grand_total = SumLineTotal(presult.priced_items)

\* one token of each outcome: the first tier, the second tier at another unit
\* price, and a tonnage between the tiers
C2_Witness ==
    /\ Returned
    /\ \E k, j \in 1..Len(presult.priced_items) :
          /\ InSmallTier(presult.priced_items[k].tons)
          /\ InLargeTier(presult.priced_items[j].tons)
          /\ presult.priced_items[k].unit_price # presult.priced_items[j].unit_price
          /\ presult.summary.grand_total =
                 presult.priced_items[k].line_total + presult.priced_items[j].line_total
    /\ \E k \in 1..Len(presult.needs_clarification) :
          presult.needs_clarification[k].reason = <<"Tonnage is not in a valid pricing tier.", 110>>

\* starts with three letters and two digits
StartsWye(m) ==
    /\ \A k \in 1..3 : IsLetter(Ch(m, k))
    /\ \A k \in 4..5 : IsDigit(Ch(m, k))

\* the capacity code of the claim: from the first 5 alphanumeric characters,
\* positions 2-4 (counted from 0) if all digits, else positions 2-3
ClaimedCode(m) ==
    LET f == FirstFive(m)
    IN  IF Len(f) = 5 /\ \A k \in 3..5 : IsDigit(Ch(f, k)) THEN SubSeq(f, 3, 5)
        ELSE IF Len(f) >= 4 /\ \A k \in 3..4 : IsDigit(Ch(f, k)) THEN SubSeq(f, 3, 4)
        ELSE NoneStr

\* C3: a token that does not start with three letters and two digits is
\* decoded by the positional rule and looked up in the table by exact string
\* equality (code "03" does not match a row keyed "3" or "003"; a miss gives a
\* "not found" ClarificationItem and no PricedItem); a token that starts with
\* three letters and two digits is decoded through the direct map alone.
C3_Decoding ==
    Returned =>
        \A c \in Range(model_counts) :
          LET m == c[1]
              p == ItemsOf(presult.priced_items, m)
              n == ItemsOf(presult.needs_clarification, m)
              rows == {k \in 1..Len(tonnage_key_df.rows) :
                          tonnage_key_df.rows[k].capacity_code = ClaimedCode(m)}
          IN  IF StartsWye(m)
              THEN IF SubSeq(m, 4, 5) \in DOMAIN WYE_TONNAGE_MAP
                   THEN /\ n = {} /\ Cardinality(p) = 1
                        /\ \A k \in p : presult.priced_items[k].tons =
                                            WYE_TONNAGE_MAP[SubSeq(m, 4, 5)]
                   ELSE /\ p = {} /\ Cardinality(n) = 1
                        /\ \A k \in n : presult.needs_clarification[k].reason =
                               <<"WYE capacity code not found in direct map.", SubSeq(m, 4, 5)>>
              ELSE IF ClaimedCode(m) = NoneStr
              THEN /\ p = {} /\ Cardinality(n) = 1
                   /\ \A k \in n : presult.needs_clarification[k].reason[1] =
                          "Could not decode a valid capacity code."
              ELSE IF rows = {}
              THEN /\ p = {} /\ Cardinality(n) = 1
                   /\ \A k \in n : presult.needs_clarification[k].reason =
                          <<"Capacity code not found in key file.", ClaimedCode(m)>>
              ELSE LET tons == tonnage_key_df.rows[Min(rows)].tons
                   IN  /\ \A k \in p : presult.priced_items[k].tons = tons
                       /\ \A k \in n : presult.needs_clarification[k].reason =
                              <<"Tonnage is not in a valid pricing tier.", tons>>
                       /\ Cardinality(p) + Cardinality(n) = 1

\* code "03" against a table that has rows keyed "3" and "003" but none keyed
\* "03", next to a token decoded through the direct map
C3_Witness ==
    /\ Returned
    /\ \E k \in 1..Len(tonnage_key_df.rows) : tonnage_key_df.rows[k].capacity_code = "3"
    /\ \E k \in 1..Len(presult.needs_clarification) :
          /\ presult.needs_clarification[k].model = "ZF03A"
          /\ presult.needs_clarification[k].reason =
                 <<"Capacity code not found in key file.", "03">>
    /\ \E k \in 1..Len(presult.priced_items) : StartsWye(presult.priced_items[k].model)

\* a 10-character run of letters/digits of any case with at least one digit
IsSerialShaped(s) ==
    /\ Len(s) = 10
    /\ \A k \in 1..Len(s) : IsLetter(Ch(s, k)) \/ IsDigit(Ch(s, k))
    /\ \E k \in 1..Len(s) : IsDigit(Ch(s, k))

\* such a run at position i of t, not adjacent to another letter or digit
SerialShapedAt(t, i) ==
    /\ i + 9 <= Len(t)
    /\ IsSerialShaped(SubSeq(t, i, i + 9))
    /\ ~(IsLetter(Ch(t, i - 1)) \/ IsDigit(Ch(t, i - 1)))
    /\ ~(IsLetter(Ch(t, i + 10)) \/ IsDigit(Ch(t, i + 10)))

\* C4: every 10-character run of letters/digits with a digit that is not
\* adjacent to another letter or digit is deleted before extraction, whatever
\* its letter case: no character of such a run of the input is left in the
\* text the models are extracted from.
C4_SerialRunsStripped ==
    Returned =>
        \A i \in 1..Len(input_text) :
            SerialShapedAt(input_text, i) => (i..(i + 9)) \cap Range(kept) = {}

\* the label alternation of the claim: serial, serial no, s/n, sn, each
\* optionally followed by '.' and/or '#'
ClaimedLabelEnds(t, i) ==
    LET a == IF LitAt(t, i, "serial") THEN {i + 6} ELSE {}
        b == IF LitAt(t, i, "serial no") THEN {i + 9} ELSE {}
        c == IF LitAt(t, i, "s/n") THEN {i + 3} ELSE {}
        d == IF LitAt(t, i, "sn") THEN {i + 2} ELSE {}
    IN  OptChar(t, OptChar(t, a \cup b \cup c \cup d, "."), "#")

\* the positions of the run of 10 or more letters, digits and hyphens that
\* follows a label at i ({} when there is no label or no such run)
LabelledRun(t, i) ==
    UNION {SpanEnd(t, e, SpaceSet)..(RunAfter(t, e) - 1) :
              e \in {x \in ClaimedLabelEnds(t, i) : RunAfter(t, x) > 0}}

\* C5: a serial-number label (serial, serial no, s/n, sn, any case, with an
\* optional '.' and/or '#') followed by a run of 10 or more letters, digits
\* and hyphens is deleted before extraction, so that the run is never captured
\* as a model token: no character of such a run of the input is left in the
\* text the models are extracted from.
C5_LabelledSerialsStripped ==
    Returned =>
        \A i \in 1..Len(input_text) : LabelledRun(input_text, i) \cap Range(kept) = {}

\* C6: tokens are the upper-cased matches; each distinct token has exactly one
\* item in priced_items and needs_clarification together, its quantity is the
\* number of its occurrences, each list is in order of first appearance, and a
\* text without a model-shaped substring gives empty lists and zero totals.
C6_TokenIdentity ==
    Returned =>
        /\ all_models_found = FindModels(text)
        /\ \A m \in Range(all_models_found) :
             /\ ToUpper(m) = m
             /\ Cardinality(ItemsOf(presult.priced_items, m))
                  + Cardinality(ItemsOf(presult.needs_clarification, m)) = 1
             /\ \A k \in ItemsOf(presult.priced_items, m) :
                  presult.priced_items[k].quantity = Occurrences(all_models_found, m)
             /\ \A k \in ItemsOf(presult.needs_clarification, m) :
                  presult.needs_clarification[k].quantity = Occurrences(all_models_found, m)
        /\ \A k \in 1..Len(presult.priced_items) :
             /\ presult.priced_items[k].model \in Range(all_models_found)
             /\ \A j \in 1..(k - 1) :
                  FirstIndex(all_models_found, presult.priced_items[j].model)
                    < FirstIndex(all_models_found, presult.priced_items[k].model)
        /\ \A k \in 1..Len(presult.needs_clarification) :
             /\ presult.needs_clarification[k].model \in Range(all_models_found)
             /\ \A j \in 1..(k - 1) :
                  FirstIndex(all_models_found, presult.needs_clarification[j].model)
                    < FirstIndex(all_models_found, presult.needs_clarification[k].model)
        /\ all_models_found = <<>> =>
             /\ presult.priced_items = <<>> /\ presult.needs_clarification = <<>>
             /\ presult.summary.grand_total = 0
             /\ presult.summary.total_units_count = 0

\* the same token twice in different letter case, around another priced token
C6_Witness ==
    /\ Returned
    /\ input_text = "ZF037 WYE06 zf037"
    /\ Len(presult.priced_items) = 2
    /\ presult.priced_items[1].model = "ZF037" /\ presult.priced_items[1].quantity = 2
    /\ presult.priced_items[2].model = "WYE06" /\ presult.priced_items[2].quantity = 1

-----------------------------------------------------------------------------
(* Properties of process_full_request, checked under SpecApp.              *)

InvalidText == data.kind \in {"null", "empty", "no_text"} \/ ~data.is_str

\* C7: the handler never lets an exception escape; a request whose text is
\* missing or is no string gets a structured error with no pricing and no
\* partner processing; an unavailable table gives an error field in
\* pricing_analysis; a failure of the partner locator is data in
\* partner_locator.
C7_FailuresAreData ==
    /\ apc # "raised"
    /\ InvalidText => pricing_results = None /\ ~partner_called
    /\ (apc = "done" /\ InvalidText) => response = NoTextError
    /\ (apc = "done" /\ ~InvalidText) =>
          /\ response.status = 200
          /\ app_key = None => response.body.pricing_analysis = KeyNotLoaded
          /\ (partner_called /\ (world.geocode # "OK" \/ world.roster = None))
                => "failure" \in DOMAIN response.body.partner_locator

Responded == apc = "done" /\ response.status = 200

\* C8: with no address in the text find_closest_partners is never called,
\* partner_locator is the error object and pricing_analysis is what
\* parse_and_price gives for the text; and whatever the partner locator
\* returned, pricing_analysis is what parse_and_price gives for the text.
C8_PricingIndependent ==
    /\ (data.is_str /\ ExtractAddress(data.text) = NoneStr) =>
          ~partner_called /\ fpc = "idle"
    /\ Responded =>
          /\ response.body.pricing_analysis = ParseAndPrice(data.text, app_key)
          /\ ExtractAddress(data.text) = NoneStr =>
                response.body.partner_locator = NoAddressError
          /\ partner_called => response.body.partner_locator = fresult

C8_Witness ==
    /\ Responded
    /\ ExtractAddress(data.text) = NoneStr
    /\ response.body.partner_locator = NoAddressError
    /\ app_key # None
    /\ Len(response.body.pricing_analysis.priced_items) >= 2

-----------------------------------------------------------------------------
(* Properties of find_closest_partners, checked under SpecPartners.        *)

Min2(a, b) == IF a < b THEN a ELSE b
Listed == {fresult.partners[r].partner_name : r \in 1..Len(fresult.partners)}
\* the driving distance of roster row k
DistanceOf(k) == all_distances[k]

\* C9: with the address geocoded and the roster loaded the result is a list
\* of min(3, roster size) partners in ascending order of distance, no partner
\* left out is closer than a listed one, and a partner of infinite distance
\* is listed only after every partner of finite distance; when geocoding or
\* the roster fails the result is a failure string and no distance request
\* was made.
C9_ClosestPartners ==
    fpc = "done" =>
        IF world.geocode = "OK" /\ world.roster # None
        THEN /\ "partners" \in DOMAIN fresult
             /\ Len(fresult.partners) = Min2(3, Len(world.roster.rows))
             /\ Cardinality(Listed) = Len(fresult.partners)
             /\ Listed \subseteq 1..Len(world.roster.rows)
             /\ \A r \in 1..Len(fresult.partners) :
                  LET k == fresult.partners[r].partner_name
                  IN  /\ fresult.partners[r].distance_miles = Round2(DistanceOf(k))
                      /\ \A q \in 1..(r - 1) :
                           ~DistLess(DistanceOf(k), DistanceOf(fresult.partners[q].partner_name))
                      /\ \A j \in 1..Len(world.roster.rows) :
                           j \notin Listed => ~DistLess(DistanceOf(j), DistanceOf(k))
                      /\ DistanceOf(k).inf =>
                           \A j \in 1..Len(world.roster.rows) :
                              ~DistanceOf(j).inf =>
                                 \E q \in 1..(r - 1) : fresult.partners[q].partner_name = j
        ELSE /\ "failure" \in DOMAIN fresult
             /\ requests = <<>>

\* more partners than one request carries, three listed, and partners of
\* finite and of infinite distance left out
C9_Witness ==
    /\ fpc = "done"
    /\ "partners" \in DOMAIN fresult
    /\ Len(world.roster.rows) > chunk_size
    /\ Len(fresult.partners) = 3
    /\ ~fresult.partners[1].distance_miles.inf
    /\ \E k \in 1..Len(all_distances) : all_distances[k].inf /\ k \notin Listed
    /\ \E k \in 1..Len(all_distances) : ~all_distances[k].inf /\ k \notin Listed

RECURSIVE Flatten(_)
Flatten(reqs) ==
    IF reqs = <<>> THEN <<>> ELSE Head(reqs).destinations \o Flatten(Tail(reqs))

LoopEnded == fpc \in {"distances", "done"} /\ partners_df # None
                /\ chunk_i >= Len(partners_df.rows)

\* the request that carried roster row k, and the place of k in it
RequestOf(k) == ((k - 1) \div 25) + 1
PlaceOf(k) == ((k - 1) % 25) + 1

\* C10: every request carries at most 25 destinations; when the loop has
\* ended every destination was sent in exactly one request, in roster order,
\* and all_distances has one entry per destination, entry i being the
\* distance of destination i, or infinity when its element failed or its
\* whole request failed.
C10_DistancesAligned ==
    /\ \A r \in 1..Len(requests) : Len(requests[r].destinations) <= 25
    /\ LoopEnded =>
          /\ Flatten(requests) = CoordsList(partners_df)
          /\ Len(all_distances) = Len(partners_df.rows)
          /\ \A k \in 1..Len(partners_df.rows) :
               LET req == requests[RequestOf(k)]
               IN  all_distances[k] =
                     IF req.status = "OK" /\ PlaceOf(k) \notin req.failed
                     THEN Miles(MetersTo(world.profile, CoordsList(partners_df)[k]))
                     ELSE Inf

\* two requests: the first failed as a whole, the second answered with one
\* failed element
C10_Witness ==
    /\ LoopEnded
    /\ Len(requests) = 2
    /\ requests[1].status # "OK"
    /\ requests[2].status = "OK" /\ requests[2].failed # {}
    /\ Len(requests[2].destinations) >= 2

====
